---- MODULE Spec2Model ----
(***************************************************************************)
(* Quota-gated case access of capstone's cite application                  *)
(* (src/capstone/cite/views.py): the citation and case_pdf views, the      *)
(* locked_session context manager and the set_cookie view, acting on the   *)
(* session row of one client.                                              *)
(*                                                                         *)
(* A request is handled in steps.  Its first step is the handler up to the *)
(* branch on the access tier, the unlocked load of request.session         *)
(* included.  A request of the quota branch then takes the row lock        *)
(* (select_for_update), runs the guarded block, and saves and commits.     *)
(* The serializer and the PDF branch follow, and last the response leaves  *)
(* through the session middleware, which saves a modified session.         *)
(*                                                                         *)
(* The redactions and elisions of the html branch are modelled on texts    *)
(* made of words, one step per rule of a map (SpecRedact), and the consent *)
(* flow by a browser that follows the redirects it is given (SpecFlow).    *)
(***************************************************************************)
EXTENDS Integers, FiniteSets, Sequences, TLC

\* ------------------------------------------------------------- bounds
\* settings.API_CASE_DAILY_ALLOWANCE (the settings module is not in src/)
API_CASE_DAILY_ALLOWANCE == 2
\* request slots: the requests of the client that can be in flight at once
NumReqs == 2
\* how many times the clock advances in one behaviour
MaxTicks == 2
\* how many rules a redaction map and an elision map hold at most
MaxRules == 2
\* how many redirects in a row a browser follows
MaxRedirects == 4

\* ---------------------------------------------------------- constants
\* 60*60*24, the length of the quota window in seconds of time.time()
Day == 60 * 60 * 24

\* the request slots: those of overlapping requests, and one more than the
\* allowance for requests sent one after the other
Reqs == 1 .. (IF NumReqs > API_CASE_DAILY_ALLOWANCE + 1
              THEN NumReqs ELSE API_CASE_DAILY_ALLOWANCE + 1)

\* the amounts the clock advances by: a second, or a whole window
TickSteps == {1, Day}

VARIABLES
    now,      \* time.time()
    ticks,    \* how often the clock advanced
    row,      \* the session row of the client in the session table
    lock,     \* the request holding the row lock (select_for_update), or 0
    temp,     \* temp_session of the lock holder
    req,      \* per request slot: the handler's position and locals
    slots,    \* the slots requests arrive in
    initial,  \* case_allowance_remaining of the session in the initial state
    doc,      \* the serialized case of an html response under redaction
    client    \* a browser going through the consent flow

vars == <<now, ticks, row, lock, temp, req, slots, initial, doc, client>>

\* ------------------------------------------------------- session data
\* A session dict, as far as the views read it: whether it holds the keys
\* case_allowance_remaining / case_allowance_last_updated, and their values.
EmptySession == [has |-> FALSE, remaining |-> 0, last_updated |-> 0]

QuotaSession(n, t) == [has |-> TRUE, remaining |-> n, last_updated |-> t]

\* dict.update: the keys of d replace those of s, the other keys of s stay
Update(s, d) == IF d.has THEN d ELSE s

\* SessionStore.load(): the decoded row, or {} when there is no row, the row
\* is expired, or its data does not decode
Load(r) == IF r.status = "ok" THEN r.data ELSE EmptySession

\* session.model.objects.select_for_update().get(session_key=...,
\* expire_date__gt=now) and session.decode(): the decoded row, or {} on
\* DoesNotExist (no row, expired row) and on data that does not decode
LockedRead(r) == IF r.status = "ok" THEN r.data ELSE EmptySession

\* request.session.save() of a session that was loaded from a row: an UPDATE
\* of the row (a row that is gone is not written again)
SaveRow(r, data) ==
    IF r.status = "missing" THEN r ELSE [status |-> "ok", data |-> data]

\* request.session.save() of a session without a row: the row is created
CreateRow(data) == [status |-> "ok", data |-> data]

\* ------------------------------------------------------ paths and urls
\* the path of the canonical url of the case, as a sequence of separators and
\* segments: /<series_slug>/<volume_number>/<page_number>/ or the pdf's
FullPath(view) ==
    IF view = "pdf" THEN <<"/", "pdf", "/", "7", "/", "case.pdf">>
                    ELSE <<"/", "ill", "/", "1", "/", "1", "/">>

\* slugify(), on the slugs clients send: lower case
Slugify(slug) ==
    IF slug = "Ill" THEN "ill" ELSE IF slug = "1A" THEN "1a" ELSE slug

SeriesSlugs == {"ill", "Ill"}

VolumeSlugs == {"1", "1A"}

\* reverse('citation', args=[series_slug, volume_number_slug, page_number])
\* and the same with a case_id as fourth argument ("" for none)
CitationPath(series_slug, volume_number_slug, page_number, case_id) ==
    <<"/", series_slug, "/", volume_number_slug, "/", page_number, "/">>
       \o (IF case_id = "" THEN <<>> ELSE <<case_id, "/">>)

\* the path of a request for the pdf of case 7
PdfPath(pdf_name) == <<"/", "pdf", "/", "7", "/", pdf_name>>

\* urlencode({'next': path}): the reserved character / is percent-encoded
UrlEncode(path) ==
    [i \in 1 .. Len(path) |-> IF path[i] = "/" THEN "%2F" ELSE path[i]]

\* what request.GET['next'] holds for the query string urlencode wrote
QueryDecode(q) == [i \in 1 .. Len(q) |-> IF q[i] = "%2F" THEN "/" ELSE q[i]]

\* a url: its host ("" for a url without one), its path and the value of its
\* next parameter; the empty url stands for an absent value
NoLocation == [host |-> "", path |-> <<>>, next |-> <<>>]

Url(host, path) == [host |-> host, path |-> path, next |-> <<>>]

Root == Url("", <<"/">>)

\* request.get_host()
RequestHost == "cite.case.law"

\* (variant: the redirect drops the requested path)
SetCookieRedirectRoot(path) ==
    [host |-> RequestHost, path |-> <<"/", "set_cookie", "/">>, next |-> UrlEncode(<<"/">>)]

\* HttpResponseRedirect('%s?%s' % (reverse('set_cookie'), urlencode({'next': ...})))
SetCookieRedirect(path) ==
    [host |-> RequestHost, path |-> <<"/", "set_cookie", "/">>, next |-> UrlEncode(path)]

\* is_safe_url(url, allowed_hosts): a url without a host, or on an allowed one
IsSafeUrl(url, allowed_hosts) ==
    url # NoLocation /\ (url.host = "" \/ url.host \in allowed_hosts)

\* (variant: the next value is not tested)
SafeRedirectAnyHost(post_next, get_next, host) ==
    IF post_next # NoLocation THEN post_next
    ELSE IF get_next # NoLocation THEN get_next
    ELSE Root

\* safe_redirect(): POST's next, else GET's next, else '/', and '/' again
\* when that is not safe for the request's host
SafeRedirect(post_next, get_next, host) ==
    LET next == IF post_next # NoLocation THEN post_next
                ELSE IF get_next # NoLocation THEN get_next
                ELSE Root
    IN  IF IsSafeUrl(next, {host}) THEN next ELSE Root

\* the redirect of citation() to the slugified path, which keeps the case id
\* of a path that has one
SlugRedirect(path) ==
    Url(RequestHost,
        CitationPath(Slugify(path[2]), Slugify(path[4]), path[6],
                     IF Len(path) > 7 THEN path[8] ELSE ""))

\* case.get_pdf_url()
PdfUrl == Url(RequestHost, FullPath("pdf"))

\* ------------------------------------------------------------- tiers
\* request.COOKIES.get('not_a_bot', 'no')
CookieGet(cookie) == IF cookie = "absent" THEN "no" ELSE cookie

CookieValues == {"yes", "absent"}

\* (variant: the crawler branch comes before the quota branch)
ResolveCrawlerFirst(whitelisted, authenticated, has_entry, cookie, crawler) ==
    IF whitelisted \/ authenticated THEN "FullAccess"
    ELSE IF crawler THEN "CrawlerAccess"
    ELSE IF has_entry /\ CookieGet(cookie) = "yes" THEN "QuotaCheck"
    ELSE "DeniedNeedsCookie"

\* (variant: the quota branch comes before the full-access branch)
ResolveQuotaFirst(whitelisted, authenticated, has_entry, cookie, crawler) ==
    IF has_entry /\ CookieGet(cookie) = "yes" THEN "QuotaCheck"
    ELSE IF whitelisted \/ authenticated THEN "FullAccess"
    ELSE IF crawler THEN "CrawlerAccess"
    ELSE "DeniedNeedsCookie"

\* the if/elif chain of citation() that picks the serializer or redirects
Resolve(whitelisted, authenticated, has_entry, cookie, crawler) ==
    IF whitelisted \/ authenticated THEN "FullAccess"
    ELSE IF has_entry /\ CookieGet(cookie) = "yes" THEN "QuotaCheck"
    ELSE IF crawler THEN "CrawlerAccess"
    ELSE "DeniedNeedsCookie"

\* ------------------------------------------------------- quota check
\* (variant: the comparison admits the boundary)
ResetDueAtBoundary(s, t) == s.last_updated <= t - Day

\* session['case_allowance_last_updated'] < time.time() - 60*60*24
ResetDue(s, t) == s.last_updated < t - Day

\* (variant: the test of the quota is cases_remaining >= 0)
CheckBodyGrantAtZero(s, t) ==
    LET cases_remaining ==
            IF ResetDue(s, t) THEN API_CASE_DAILY_ALLOWANCE ELSE s.remaining
        last_updated == IF ResetDue(s, t) THEN t ELSE s.last_updated
    IN  IF cases_remaining >= 0
        THEN [session |-> QuotaSession(cases_remaining - 1, last_updated),
              serializer |-> "NoLogin"]
        ELSE [session |-> QuotaSession(s.remaining, last_updated),
              serializer |-> "WithCasebody"]

\* (variant: a grant does not write the decrement)
CheckBodyNoDecrement(s, t) ==
    LET cases_remaining ==
            IF ResetDue(s, t) THEN API_CASE_DAILY_ALLOWANCE ELSE s.remaining
        last_updated == IF ResetDue(s, t) THEN t ELSE s.last_updated
    IN  IF cases_remaining > 0
        THEN [session |-> QuotaSession(cases_remaining, last_updated),
              serializer |-> "NoLogin"]
        ELSE [session |-> QuotaSession(s.remaining, last_updated),
              serializer |-> "WithCasebody"]

\* (variant: the exhausted quota keeps the no-login serializer)
CheckBodyNoLoginWhenExhausted(s, t) ==
    LET cases_remaining ==
            IF ResetDue(s, t) THEN API_CASE_DAILY_ALLOWANCE ELSE s.remaining
        last_updated == IF ResetDue(s, t) THEN t ELSE s.last_updated
    IN  IF cases_remaining > 0
        THEN [session |-> QuotaSession(cases_remaining - 1, last_updated),
              serializer |-> "NoLogin"]
        ELSE [session |-> QuotaSession(s.remaining, last_updated),
              serializer |-> "NoLogin"]

\* the block guarded by locked_session, on a session s that holds the quota
\* keys, at time t: the session it leaves and the serializer it picks
CheckBody(s, t) ==
    LET cases_remaining ==
            IF ResetDue(s, t) THEN API_CASE_DAILY_ALLOWANCE ELSE s.remaining
        last_updated == IF ResetDue(s, t) THEN t ELSE s.last_updated
    IN  IF cases_remaining > 0
        THEN [session |-> QuotaSession(cases_remaining - 1, last_updated),
              serializer |-> "NoLogin"]
        ELSE [session |-> QuotaSession(s.remaining, last_updated),
              serializer |-> "WithCasebody"]

\* the else branch of citation(): the quota keys set on request.session
FreshQuota(t) == QuotaSession(API_CASE_DAILY_ALLOWANCE, t)

\* --------------------------------------------------------- rendering
\* serialized_data['casebody']['status'] (capapi/serializers.py): the
\* no-login serializer gives the body to anyone; the credential-checking one
\* gives it for a whitelisted case and to an authenticated user whose own
\* allowance covers the case, and to nobody else
CasebodyStatus(serializer, whitelisted, authenticated, user_ok) ==
    IF serializer = "NoLogin" THEN "ok"
    ELSE IF whitelisted THEN "ok"
    ELSE IF authenticated /\ user_ok THEN "ok"
    ELSE IF authenticated THEN "error_limit_exceeded"
    ELSE "error_auth_required"

\* (variant: the pdf branch does not look at the status of the casebody)
PdfResponseAnyStatus(status, can_render_pdf) ==
    IF ~can_render_pdf THEN "not_found" ELSE "pdf"

\* (variant: the redaction of the case is not looked at)
CanRenderPdfIgnoringRedaction(pdf_file, redacted, feature) == pdf_file /\ feature

\* db_case.volume.pdf_file and not db_case.no_index_redacted and settings.CASE_PDF_FEATURE
CanRenderPdf(pdf_file, redacted, feature) == pdf_file /\ ~redacted /\ feature

\* the "if pdf:" block of citation()
PdfResponse(status, can_render_pdf) ==
    IF status # "ok" THEN "redirect_frontend"
    ELSE IF ~can_render_pdf THEN "not_found"
    ELSE "pdf"

\* the response of citation() once the serializer ran
Rendered(view, status, can_render_pdf) ==
    IF view = "pdf" THEN PdfResponse(status, can_render_pdf) ELSE "html"

\* ------------------------------------------- redactions and elisions
\* A text is a sequence of words and pieces of markup.  The patterns of the
\* rules are words; re.sub(pattern, repl, text) puts repl in the place of
\* every word the pattern matches, and does not look into what it put.
RECURSIVE ReSub(_, _, _)
ReSub(pattern, repl, text) ==
    IF text = <<>> THEN <<>>
    ELSE (IF Head(text) = pattern THEN repl ELSE <<Head(text)>>)
            \o ReSub(pattern, repl, Tail(text))

\* '%s' % count
Str(count) == <<"0", "1", "2", "3", "4", "5">>[count + 1]

\* (variant: redaction ids count from 1)
RedactionSpanFromOne(redaction_count, val) ==
    <<"<span class='redacted-text' data-redaction-id='", Str(redaction_count + 1),
      "'>", val, "</span>">>

\* "<span class='redacted-text' data-redaction-id='%s'>%s</span>" % (redaction_count, val)
RedactionSpan(redaction_count, val) ==
    <<"<span class='redacted-text' data-redaction-id='", Str(redaction_count),
      "'>", val, "</span>">>

\* "[ %s ]" % val
Bracketed(val) == <<"[", val, "]">>

\* elision_span % (val, elision, elision_count)
ElisionSpan(val, elision, elision_count) ==
    <<"<span class='elision-help-text' style='display: none'>", "hide",
      "</span>", "<span class='elided-text' data-elision-reason='", val,
      "' role='button' tabindex='0' data-hidden-text='", elision,
      "' data-elision-id='", Str(elision_count), "'>", "...", "</span>">>

\* the footer appended to the body: the case's custom_footer_message, or one
\* generated for a case with redactions or elisions, its newlines as <br/>
Footer(custom_footer_message, redacted, elided) ==
    LET message ==
            IF custom_footer_message # <<>> THEN custom_footer_message
            ELSE (IF redacted
                  THEN <<"Some text has been redacted by request of participating parties. ", "<br/>">>
                  ELSE <<>>)
                 \o (IF elided
                     THEN <<"Some text has been elided by request of participating parties. ", "<br/>">>
                     ELSE <<>>)
    IN  IF message = <<>> THEN <<>>
        ELSE <<"<hr/><footer class='custom-case-footer'>">> \o message
                \o <<"</footer>">>

\* no html response under redaction
NoDoc ==
    [pc |-> "none", data |-> <<>>, name |-> <<>>, name_abbreviation |-> <<>>,
     case_name_with_markup |-> <<>>, name_with_html_markup |-> <<>>,
     no_index_redacted |-> <<>>, no_index_elided |-> <<>>,
     custom_footer_message |-> <<>>,
     redaction_count |-> 0, elision_count |-> 0]

\* one round of "for redaction, val in db_case.no_index_redacted.items()"
Redact ==
    /\ doc.pc = "redact"
    /\ doc.redaction_count < Len(doc.no_index_redacted)
    /\ LET redaction == doc.no_index_redacted[doc.redaction_count + 1][1]
           val == doc.no_index_redacted[doc.redaction_count + 1][2]
       IN  doc' = [doc EXCEPT
              !.data = ReSub(redaction, RedactionSpan(doc.redaction_count, val), @),
              !.redaction_count = @ + 1,
              !.case_name_with_markup = ReSub(redaction, Bracketed(val), @),
              !.name_abbreviation = ReSub(redaction, Bracketed(val), @)]
    /\ UNCHANGED <<now, ticks, row, lock, temp, req, slots, initial, client>>

\* the end of the redactions: serialized_data['name'] = case_name_with_markup
\* for a case that has any, and on to the elisions
RedactionsDone ==
    /\ doc.pc = "redact"
    /\ doc.redaction_count = Len(doc.no_index_redacted)
    /\ doc' = [doc EXCEPT
           !.pc = "elide",
           !.name = IF doc.no_index_redacted # <<>>
                    THEN doc.case_name_with_markup ELSE @]
    /\ UNCHANGED <<now, ticks, row, lock, temp, req, slots, initial, client>>

\* one round of "for elision, val in db_case.no_index_elided.items()"
Elide ==
    /\ doc.pc = "elide"
    /\ doc.elision_count < Len(doc.no_index_elided)
    /\ LET elision == doc.no_index_elided[doc.elision_count + 1][1]
           val == doc.no_index_elided[doc.elision_count + 1][2]
           elision_count == doc.elision_count + 1
       IN  doc' = [doc EXCEPT
              !.data = ReSub(elision, ElisionSpan(val, elision, doc.elision_count), @),
              !.elision_count = elision_count,
              !.case_name_with_markup =
                  ReSub(elision, ElisionSpan(val, elision, elision_count), @),
              !.name = ReSub(elision, <<"...">>, @),
              !.name_abbreviation = ReSub(elision, <<"...">>, @)]
    /\ UNCHANGED <<now, ticks, row, lock, temp, req, slots, initial, client>>

\* the end of the elisions: name_with_html_markup is set and the footer is
\* appended to the body
ElisionsDone ==
    /\ doc.pc = "elide"
    /\ doc.elision_count = Len(doc.no_index_elided)
    /\ doc' = [doc EXCEPT
           !.pc = "done",
           !.name_with_html_markup = doc.case_name_with_markup,
           !.data = @ \o Footer(doc.custom_footer_message,
                                doc.no_index_redacted # <<>>,
                                doc.no_index_elided # <<>>)]
    /\ UNCHANGED <<now, ticks, row, lock, temp, req, slots, initial, client>>

\* ---------------------------------------------------------- requests
\* a free request slot
Idle ==
    [pc |-> "idle", view |-> "none", path |-> <<>>, canonical |-> TRUE,
     lookup |-> "none",
     whitelisted |-> FALSE, authenticated |-> FALSE, cookie |-> "absent",
     crawler |-> FALSE, had_entry |-> FALSE, tier |-> "none",
     session |-> EmptySession, modified |-> FALSE, serializer |-> "none",
     status |-> "none", redacted |-> FALSE, pdf_file |-> FALSE,
     feature |-> FALSE, post_yes |-> FALSE, no_js |-> FALSE,
     post_next |-> NoLocation, get_next |-> NoLocation,
     response |-> "none", location |-> NoLocation, set_cookie |-> "none"]

Views == {"citation", "pdf"}

\* what the lookup of the case finds: a case id that exists or not, or a
\* citation that zero, one or two cases carry; for the pdf, whose case is
\* looked up in the database first, also a case the index does not hold
Lookups(view) ==
    IF view = "pdf" THEN {"id_found", "id_missing", "index_missing"}
    ELSE {"id_found", "id_missing", "cite_0", "cite_1", "cite_2"}

AllLookups == Lookups("pdf") \cup Lookups("citation")

\* the lookup is one by case id
HasCaseId(lookup) == lookup \in {"id_found", "id_missing", "index_missing"}

\* the paths a case is asked by: with slugs in slug form or not, with the
\* case id or without; the pdf by its name or by another
RequestPaths(view, lookup) ==
    IF view = "pdf" THEN {PdfPath("case.pdf"), PdfPath("other.pdf")}
    ELSE {CitationPath(series_slug, volume_number_slug, "1",
                       IF HasCaseId(lookup) THEN "7" ELSE "") :
             series_slug \in SeriesSlugs, volume_number_slug \in VolumeSlugs}

\* the tests for the canonical url: case_pdf() compares the url with
\* case.get_pdf_url(), citation() the two slugs with their slugified form
IsCanonical(view, path) ==
    IF view = "pdf" THEN path = PdfUrl.path
    ELSE Slugify(path[2]) = path[2] /\ Slugify(path[4]) = path[4]

\* (variant: citation() looks the case up before it compares the slugs)
EarlyExitLookupFirst(view, canonical, lookup) ==
    IF view = "pdf"
    THEN IF lookup = "id_missing" THEN "not_found"
         ELSE IF ~canonical THEN "redirect_pdf_url"
         ELSE IF lookup = "index_missing" THEN "not_found"
         ELSE "none"
    ELSE IF lookup = "id_missing" THEN "not_found"
         ELSE IF lookup \in {"cite_0", "cite_2"} THEN "citation_failed"
         ELSE IF ~canonical THEN "redirect_slug"
         ELSE "none"

\* (variant: of several cases with the citation the first is shown)
EarlyExitFirstOfMany(view, canonical, lookup) ==
    IF view = "pdf"
    THEN IF lookup = "id_missing" THEN "not_found"
         ELSE IF ~canonical THEN "redirect_pdf_url"
         ELSE IF lookup = "index_missing" THEN "not_found"
         ELSE "none"
    ELSE IF ~canonical THEN "redirect_slug"
         ELSE IF lookup = "id_missing" THEN "not_found"
         ELSE IF lookup = "cite_0" THEN "citation_failed"
         ELSE "none"

\* The returns of case_pdf() and citation() that come before the tier is
\* resolved, "none" when the handler goes on: case_pdf() looks the case up
\* and then compares the url with the canonical one; citation() compares the
\* slugs first (unless pdf) and then looks the case up in the index.
EarlyExit(view, canonical, lookup) ==
    IF view = "pdf"
    THEN IF lookup = "id_missing" THEN "not_found"
         ELSE IF ~canonical THEN "redirect_pdf_url"
         ELSE IF lookup = "index_missing" THEN "not_found"
         ELSE "none"
    ELSE IF ~canonical THEN "redirect_slug"
         ELSE IF lookup = "id_missing" THEN "not_found"
         ELSE IF lookup \in {"cite_0", "cite_2"} THEN "citation_failed"
         ELSE "none"

\* The request record after the first step of case_pdf() / citation(): the
\* handler up to the branch on the tier.  s is request.session as loaded
\* from the row, t the time; whitelisted and redacted are the case's
\* jurisdiction.whitelisted and whether its no_index_redacted holds a rule.
Entered(view, path, lookup, whitelisted, redacted, authenticated, cookie, crawler, s, t) ==
    LET canonical == IsCanonical(view, path)
        early == EarlyExit(view, canonical, lookup)
        tier == Resolve(whitelisted, authenticated, s.has, cookie, crawler)
        base == [Idle EXCEPT !.view = view, !.path = path,
                             !.canonical = canonical,
                             !.lookup = lookup,
                             !.redacted = view = "pdf" /\ lookup # "id_missing"
                                             /\ redacted]
        case == [base EXCEPT !.whitelisted = whitelisted,
                             !.redacted = redacted,
                             !.authenticated = authenticated,
                             !.cookie = cookie, !.crawler = crawler,
                             !.had_entry = s.has, !.tier = tier]
    IN  IF early # "none"
        THEN [base EXCEPT !.pc = "respond", !.response = early,
                          !.location =
                              IF early = "redirect_slug" THEN SlugRedirect(path)
                              ELSE IF early = "redirect_pdf_url" THEN PdfUrl
                              ELSE NoLocation]
        ELSE IF tier = "FullAccess"
        THEN [case EXCEPT !.pc = "render", !.serializer = "WithCasebody"]
        ELSE IF tier = "QuotaCheck"
        THEN [case EXCEPT !.pc = "wait", !.session = s]
        ELSE IF tier = "CrawlerAccess"
        THEN [case EXCEPT !.pc = "render", !.serializer = "NoLogin"]
        ELSE [case EXCEPT !.pc = "respond", !.session = FreshQuota(t),
                          !.modified = TRUE,
                          !.response = "redirect_set_cookie",
                          !.location = SetCookieRedirect(path)]

\* A request for a case arrives in slot r with the given inputs and runs
\* up to the branch on the tier.
Enter(r, views, canonicals, lookups, whitelists, redacteds, auths, cookies, crawlers) ==
    /\ r \in slots
    /\ req[r].pc = "idle"
    /\ \E view \in views, whitelisted \in whitelists,
          redacted \in redacteds, authenticated \in auths, cookie \in cookies,
          crawler \in crawlers :
          \E lookup \in Lookups(view) \cap lookups :
             \E path \in RequestPaths(view, lookup) :
                /\ IsCanonical(view, path) \in canonicals
                /\ req' = [req EXCEPT ![r] =
                           Entered(view, path, lookup, whitelisted, redacted,
                                   authenticated, cookie, crawler, Load(row), now)]
    /\ UNCHANGED <<now, ticks, row, lock, temp, slots, initial, doc, client>>

\* any request for a case: /<series>/<volume>/<page>/[<case_id>/] or the pdf
Citation(r) ==
    Enter(r, Views, BOOLEAN, AllLookups, BOOLEAN, BOOLEAN, BOOLEAN,
          CookieValues, BOOLEAN)

\* a request of an anonymous browser for the page of a case that is not
\* whitelisted and holds no redaction, by its canonical url, with or without
\* the not_a_bot cookie
Anonymous(r) ==
    Enter(r, {"citation"}, {TRUE}, {"cite_1"}, {FALSE}, {FALSE}, {FALSE},
          CookieValues, {FALSE})

\* such a request carrying the not_a_bot cookie
WithCookie(r) ==
    Enter(r, {"citation"}, {TRUE}, {"cite_1"}, {FALSE}, {FALSE}, {FALSE},
          {"yes"}, {FALSE})

\* (variant: the block works on request.session as loaded before the lock,
\* the row is not read again)
LockStale(r) ==
    /\ req[r].pc = "wait"
    /\ lock = 0
    /\ lock' = r
    /\ temp' = req[r].session
    /\ req' = [req EXCEPT ![r].pc = "locked"]
    /\ UNCHANGED <<now, ticks, row, slots, initial, doc, client>>

\* "with locked_session(request) as session": the transaction begins, the
\* row is read for update and decoded.  A read that finds no row takes its
\* turn like one that finds it.
Lock(r) ==
    /\ req[r].pc = "wait"
    /\ lock = 0
    /\ lock' = r
    /\ temp' = LockedRead(row)
    /\ req' = [req EXCEPT ![r].pc = "locked"]
    /\ UNCHANGED <<now, ticks, row, slots, initial, doc, client>>

\* the guarded block; session['case_allowance_remaining'] raises KeyError on
\* a session without the key
Check(r) ==
    /\ req[r].pc = "locked"
    /\ lock = r
    /\ IF temp.has
       THEN /\ temp' = CheckBody(temp, now).session
            /\ req' = [req EXCEPT ![r].pc = "checked",
                                  ![r].serializer = CheckBody(temp, now).serializer]
       ELSE /\ temp' = temp
            /\ req' = [req EXCEPT ![r].pc = "raised"]
    /\ UNCHANGED <<now, ticks, row, lock, slots, initial, doc, client>>

\* (variant: a block that raised leaves without the finally clause and the
\* end of the transaction)
UnlockUnlessRaised(r) ==
    /\ req[r].pc \in {"checked", "raised"}
    /\ lock = r
    /\ LET session == Update(req[r].session, temp)
       IN  IF req[r].pc = "checked"
           THEN /\ row' = SaveRow(row, session)
                /\ req' = [req EXCEPT ![r].session = session,
                                      ![r].modified = TRUE,
                                      ![r].pc = "render"]
                /\ lock' = 0
                /\ temp' = EmptySession
           ELSE /\ req' = [req EXCEPT ![r].pc = "respond",
                                      ![r].response = "error"]
                /\ UNCHANGED <<row, lock, temp>>
    /\ UNCHANGED <<now, ticks, slots, initial, doc, client>>

\* the finally clause and the end of transaction.atomic: request.session is
\* updated from temp_session and saved, the commit releases the row; a
\* pending KeyError then leaves the view as a server error
Unlock(r) ==
    /\ req[r].pc \in {"checked", "raised"}
    /\ lock = r
    /\ LET session == Update(req[r].session, temp)
       IN  /\ row' = SaveRow(row, session)
           /\ req' = [req EXCEPT
                  ![r].session = session,
                  ![r].modified = TRUE,
                  ![r].pc = IF req[r].pc = "checked" THEN "render" ELSE "respond",
                  ![r].response = IF req[r].pc = "checked" THEN "none" ELSE "error"]
    /\ lock' = 0
    /\ temp' = EmptySession
    /\ UNCHANGED <<now, ticks, slots, initial, doc, client>>

\* the serializer runs and the response is built: the pdf, or the html page;
\* user_ok is whether the allowance of an authenticated user covers the case,
\* pdf_file whether the volume has a pdf, feature settings.CASE_PDF_FEATURE
\* (the record of a pdf request keeps the two)
Render(r) ==
    /\ req[r].pc = "render"
    /\ \E user_ok \in BOOLEAN, pdf_file \in BOOLEAN, feature \in BOOLEAN :
          LET status == CasebodyStatus(req[r].serializer, req[r].whitelisted,
                                       req[r].authenticated, user_ok)
          IN  req' = [req EXCEPT
                 ![r].pc = "respond",
                 ![r].status = status,
                 ![r].pdf_file = req[r].view = "pdf" /\ pdf_file,
                 ![r].feature = req[r].view = "pdf" /\ feature,
                 ![r].response = Rendered(req[r].view, status,
                                     CanRenderPdf(pdf_file, req[r].redacted,
                                                  feature))]
    /\ UNCHANGED <<now, ticks, row, lock, temp, slots, initial, doc, client>>

\* The response leaves through the session middleware, which saves
\* request.session when it was modified and the response is no server error.
Saved(r) ==
    IF req[r].modified /\ req[r].response # "error"
    THEN IF req[r].had_entry THEN SaveRow(row, req[r].session)
                             ELSE CreateRow(req[r].session)
    ELSE row

Respond(r) ==
    /\ req[r].pc = "respond"
    /\ row' = Saved(r)
    /\ req' = [req EXCEPT ![r].pc = "done"]
    /\ UNCHANGED <<now, ticks, lock, temp, slots, initial, doc, client>>

\* the slot is free for the next request
Finish(r) ==
    /\ req[r].pc = "done"
    /\ req' = [req EXCEPT ![r] = Idle]
    /\ UNCHANGED <<now, ticks, row, lock, temp, slots, initial, doc, client>>

\* time passes
Tick ==
    /\ ticks < MaxTicks
    /\ \E d \in TickSteps : now' = now + d
    /\ ticks' = ticks + 1
    /\ UNCHANGED <<row, lock, temp, req, slots, initial, doc, client>>

\* -------------------------------------------------------- set_cookie
\* the values a client sends as next: none, a path, a url on this host, a
\* url on another host
NextValues ==
    {NoLocation, Url("", FullPath("citation")),
     Url(RequestHost, FullPath("pdf")), Url("evil.example", <<"/">>)}

\* (variant: the POST with not_a_bot = 'yes' is redirected without the cookie)
SetCookieBranchNoCookie(crawler, has_entry, cookie, post_yes, no_js) ==
    IF crawler THEN "redirect"
    ELSE IF has_entry /\ CookieGet(cookie) = "yes" THEN "redirect"
    ELSE IF post_yes THEN "redirect"
    ELSE IF no_js THEN "set_cookie_page"
    ELSE "check_js_page"

\* the branch set_cookie() takes
SetCookieBranch(crawler, has_entry, cookie, post_yes, no_js) ==
    IF crawler THEN "redirect"
    ELSE IF has_entry /\ CookieGet(cookie) = "yes" THEN "redirect"
    ELSE IF post_yes THEN "redirect_with_cookie"
    ELSE IF no_js THEN "set_cookie_page"
    ELSE "check_js_page"

\* set_cookie() on a request in slot r with inputs from the given sets;
\* post_yes stands for a POST carrying not_a_bot = 'yes', no_js for a
\* no_js parameter in the query
SetCookieRequest(r, crawlers, cookies, post_yess, no_jss, post_nexts, get_nexts) ==
    /\ r \in slots
    /\ req[r].pc = "idle"
    /\ \E crawler \in crawlers, cookie \in cookies, post_yes \in post_yess,
          no_js \in no_jss, post_next \in post_nexts, get_next \in get_nexts :
          LET s == Load(row)
              branch == SetCookieBranch(crawler, s.has, cookie, post_yes, no_js)
          IN  req' = [req EXCEPT ![r] =
                 [Idle EXCEPT
                    !.pc = "respond", !.view = "set_cookie",
                    !.crawler = crawler, !.cookie = cookie,
                    !.post_yes = post_yes, !.no_js = no_js,
                    !.post_next = post_next, !.get_next = get_next,
                    !.had_entry = s.has, !.response = branch,
                    !.location =
                        IF branch \in {"redirect", "redirect_with_cookie"}
                        THEN SafeRedirect(post_next, get_next, RequestHost)
                        ELSE NoLocation,
                    !.set_cookie =
                        IF branch = "redirect_with_cookie" THEN "yes"
                        ELSE "none"]]
    /\ UNCHANGED <<now, ticks, row, lock, temp, slots, initial, doc, client>>

\* any request to set_cookie
SetCookie(r) ==
    SetCookieRequest(r, BOOLEAN, CookieValues, BOOLEAN, BOOLEAN, NextValues,
                     NextValues)

\* ------------------------------------------------------- the browser
\* A browser that keeps its cookies: the url it asks for next, the next
\* value it carries through set_cookie, its not_a_bot cookie, and how many
\* redirects it has followed.  Its session cookie names the session row.
NoClient ==
    [stage |-> "none", path |-> <<>>, next |-> <<>>, cookie |-> "absent",
     redirects |-> 0]

\* the browser asks for the page of the case, a case that is not
\* whitelisted, under the url it holds
ClientRequest ==
    /\ client.stage = "case"
    /\ Enter(1, {"citation"}, {TRUE}, {"cite_1", "id_found"}, {FALSE}, {FALSE},
             {FALSE}, {client.cookie}, {FALSE})
    /\ req'[1].path = client.path

\* the browser asks for set_cookie: following the redirect of citation(),
\* then with no_js when the script of the check_js page did not run, then
\* posting the form with not_a_bot = 'yes' and the next value of the page
ClientSetCookie ==
    /\ client.stage \in {"set_cookie", "no_js", "post"}
    /\ SetCookieRequest(1, {FALSE}, {client.cookie},
                        {client.stage = "post"}, {client.stage = "no_js"},
                        {IF client.stage = "post" THEN Url("", client.next)
                                                  ELSE NoLocation},
                        {IF client.stage = "post" THEN NoLocation
                                                  ELSE Url("", client.next)})

\* what the browser does with the response in slot 1; it stops at the case
\* page, and when it has followed MaxRedirects redirects
Received(c, q) ==
    IF q.response = "html" THEN [c EXCEPT !.stage = "served"]
    ELSE IF q.response \in {"redirect_set_cookie", "redirect", "redirect_with_cookie"}
    THEN IF c.redirects = MaxRedirects THEN [c EXCEPT !.stage = "stopped"]
         ELSE [c EXCEPT
                 !.redirects = @ + 1,
                 !.cookie = IF q.set_cookie = "yes" THEN "yes" ELSE @,
                 !.stage = IF q.response = "redirect_set_cookie"
                           THEN "set_cookie" ELSE "case",
                 !.path = IF q.response = "redirect_set_cookie" THEN @
                          ELSE q.location.path,
                 !.next = IF q.response = "redirect_set_cookie"
                          THEN QueryDecode(q.location.next) ELSE <<>>]
    ELSE IF q.response = "set_cookie_page" THEN [c EXCEPT !.stage = "post"]
    ELSE c

ClientReceive ==
    /\ client.stage \in {"case", "set_cookie", "no_js", "post"}
    /\ req[1].pc = "done"
    /\ \/ /\ req[1].response # "check_js_page"
          /\ client' = Received(client, req[1])
       \/ /\ req[1].response = "check_js_page"
          /\ \E stage \in {"post", "no_js"} : client' = [client EXCEPT !.stage = stage]
    /\ req' = [req EXCEPT ![1] = IF req[1].response = "html" THEN @ ELSE Idle]
    /\ UNCHANGED <<now, ticks, row, lock, temp, slots, initial, doc>>

\* ---------------------------------------------------- specifications
NoRow == [status |-> "missing", data |-> EmptySession]

\* A client without a session, and no request in flight.
Init ==
    /\ now = 0
    /\ ticks = 0
    /\ row = NoRow
    /\ lock = 0
    /\ temp = EmptySession
    /\ req = [r \in Reqs |-> Idle]
    /\ doc = NoDoc
    /\ client = NoClient
    /\ slots = {1}
    /\ initial = 0

Handle(r) ==
    \/ Lock(r)
    \/ Check(r)
    \/ Unlock(r)
    \/ Render(r)
    \/ Respond(r)

Next ==
    \/ \E r \in Reqs : Citation(r)
    \/ \E r \in Reqs : SetCookie(r)
    \/ \E r \in Reqs : Handle(r)
    \/ \E r \in Reqs : Finish(r)
    \/ Tick

Spec == Init /\ [][Next]_vars

\* The session table changes under a request: the row passes its expiry
\* date, is deleted (a logout elsewhere, clearsessions), or holds data that
\* no longer decodes (a changed SECRET_KEY).
Expire ==
    /\ row.status = "ok"
    /\ row' = [row EXCEPT !.status = "expired"]
    /\ UNCHANGED <<now, ticks, lock, temp, req, slots, initial, doc, client>>

Delete ==
    /\ row.status = "ok"
    /\ lock = 0
    /\ row' = NoRow
    /\ UNCHANGED <<now, ticks, lock, temp, req, slots, initial, doc, client>>

Corrupt ==
    /\ row.status = "ok"
    /\ lock = 0
    /\ row' = [row EXCEPT !.status = "corrupt"]
    /\ UNCHANGED <<now, ticks, lock, temp, req, slots, initial, doc, client>>

NextFault ==
    \/ Next
    \/ Expire
    \/ Delete
    \/ Corrupt

SpecFault == Init /\ [][NextFault]_vars

\* An anonymous browser whose session holds a quota entry with n cases
\* remaining, written at time 0, sends up to NumReqs requests, which overlap
\* in every way.  Finished requests keep their slot, so that a state shows
\* what each request was given.
InitQuota ==
    /\ now = 0
    /\ ticks = 0
    /\ \E n \in 0 .. API_CASE_DAILY_ALLOWANCE :
          /\ row = [status |-> "ok", data |-> QuotaSession(n, 0)]
          /\ initial = n
    /\ lock = 0
    /\ temp = EmptySession
    /\ req = [r \in Reqs |-> Idle]
    /\ doc = NoDoc
    /\ client = NoClient
    /\ slots = 1 .. NumReqs

NextAnon ==
    \/ \E r \in Reqs : Anonymous(r)
    \/ \E r \in Reqs : Handle(r)
    \/ Tick

SpecAnon == InitQuota /\ [][NextAnon]_vars

\* The same browser sending every request with the cookie.
NextQuota ==
    \/ \E r \in Reqs : WithCookie(r)
    \/ \E r \in Reqs : Handle(r)
    \/ Tick

SpecQuota == InitQuota /\ [][NextQuota]_vars

\* Two such requests, one to hold the lock and one to wait for it, while
\* the session table changes under them.  Every request that can take a
\* step takes one in the end: a handler runs to its end unless it waits for
\* the row.
InitLock ==
    /\ now = 0
    /\ ticks = 0
    /\ \E n \in 0 .. API_CASE_DAILY_ALLOWANCE :
          /\ row = [status |-> "ok", data |-> QuotaSession(n, 0)]
          /\ initial = n
    /\ lock = 0
    /\ temp = EmptySession
    /\ req = [r \in Reqs |-> Idle]
    /\ doc = NoDoc
    /\ client = NoClient
    /\ slots = {1, 2}

NextLock ==
    \/ \E r \in Reqs : WithCookie(r)
    \/ \E r \in Reqs : Handle(r)
    \/ Expire
    \/ Delete
    \/ Corrupt

SpecLock ==
    /\ InitLock
    /\ [][NextLock]_vars
    /\ \A r \in Reqs : WF_vars(Handle(r))

\* A browser without a session and without the not_a_bot cookie asks for a
\* case and goes where it is sent, while time passes; whatever can take a
\* step takes one in the end.
InitFlow ==
    /\ now = 0
    /\ ticks = 0
    /\ row = NoRow
    /\ lock = 0
    /\ temp = EmptySession
    /\ req = [r \in Reqs |-> Idle]
    /\ slots = {1}
    /\ initial = 0
    /\ doc = NoDoc
    /\ \E lookup \in {"cite_1", "id_found"} :
          \E path \in RequestPaths("citation", lookup) :
             /\ IsCanonical("citation", path)
             /\ client = [NoClient EXCEPT !.stage = "case", !.path = path]

ClientStep ==
    \/ ClientRequest
    \/ ClientSetCookie
    \/ ClientReceive

NextFlow ==
    \/ ClientStep
    \/ \E r \in Reqs : Handle(r)
    \/ Tick

SpecFlow ==
    /\ InitFlow
    /\ [][NextFlow]_vars
    /\ WF_vars(ClientStep)
    /\ \A r \in Reqs : WF_vars(Handle(r))

\* The same requests sent one after the other: a request is sent when every
\* earlier one has been answered.
InSequence(r) ==
    /\ \A q \in Reqs \ {r} : req[q].pc \in {"idle", "done"}
    /\ WithCookie(r)

NextSeq ==
    \/ \E r \in Reqs : InSequence(r)
    \/ \E r \in Reqs : Handle(r)
    \/ Tick

InitSeq ==
    /\ now = 0
    /\ ticks = 0
    /\ \E n \in 0 .. API_CASE_DAILY_ALLOWANCE :
          /\ row = [status |-> "ok", data |-> QuotaSession(n, 0)]
          /\ initial = n
    /\ lock = 0
    /\ temp = EmptySession
    /\ req = [r \in Reqs |-> Idle]
    /\ doc = NoDoc
    /\ client = NoClient
    /\ slots = 1 .. (API_CASE_DAILY_ALLOWANCE + 1)

SpecSeq == InitSeq /\ [][NextSeq]_vars

\* The html branch of citation() from the serialized case on, for the cases
\* whose maps hold up to MaxRules rules each.  A map is the sequence of its
\* (pattern, value) pairs in iteration order; its patterns differ.
Patterns == {"Jones", "Smith", "REDACTED"}

Values == {"REDACTED", "Smith"}

Rules == Patterns \X Values

RuleMaps ==
    {m \in UNION {[1 .. n -> Rules] : n \in 0 .. MaxRules} :
        \A i, j \in 1 .. Len(m) : i # j => m[i][1] # m[j][1]}

Texts == {<<"Smith", "v.", "Jones">>, <<"Jones", "and", "Jones">>}

InitRedact ==
    /\ now = 0
    /\ ticks = 0
    /\ row = NoRow
    /\ lock = 0
    /\ temp = EmptySession
    /\ req = [r \in Reqs |-> Idle]
    /\ slots = {}
    /\ initial = 0
    /\ client = NoClient
    /\ \E text \in Texts, redactions \in RuleMaps, elisions \in RuleMaps,
          footer \in {<<>>, <<"note">>} :
          doc = [NoDoc EXCEPT
                    !.pc = "redact", !.data = text, !.name = text,
                    !.name_abbreviation = text,
                    !.case_name_with_markup = text,
                    !.no_index_redacted = redactions,
                    !.no_index_elided = elisions,
                    !.custom_footer_message = footer]

NextRedact ==
    \/ Redact
    \/ RedactionsDone
    \/ Elide
    \/ ElisionsDone

SpecRedact == InitRedact /\ [][NextRedact]_vars

\* ------------------------------------------------------------ claims
\* what a request of the quota branch was given by its check
Granted(r) == req[r].tier = "QuotaCheck" /\ req[r].serializer = "NoLogin"

Refused(r) == req[r].tier = "QuotaCheck" /\ req[r].serializer = "WithCasebody"

GrantedRequests == {r \in Reqs : Granted(r)}

RefusedRequests == {r \in Reqs : Refused(r)}

Min(a, b) == IF a < b THEN a ELSE b

\* the quota entry as the last check left it: temp_session between the check
\* and the save, the row otherwise
Stored == IF lock # 0 /\ req[lock].pc = "checked" THEN temp ELSE row.data

InRange(s) == s.remaining \in 0 .. API_CASE_DAILY_ALLOWANCE

\* C1: of the overlapping requests of one session that run their check
\* against remaining = 1 inside the 24h window (all with the cookie, case
\* not whitelisted, nobody logged in), exactly one is given the no-login
\* serializer and every other one is refused, however they interleave.
C1_OneGrantOfLastUnit ==
    (initial = 1 /\ now < Day) =>
        /\ Cardinality(GrantedRequests) <= 1
        /\ (GrantedRequests \cup RefusedRequests # {}
               => Cardinality(GrantedRequests) = 1)

\* two requests in flight at once, one granted and the other refused
C1_Witness ==
    /\ initial = 1
    /\ now < Day
    /\ \E r, q \in Reqs :
          /\ Granted(r)
          /\ req[r].pc \in {"render", "respond"}
          /\ Refused(q)
          /\ req[q].pc = "checked"

\* C2: with remaining = N > 0 and requests answered one after the other
\* inside the 24h window, the first N checks are granted, each taking
\* exactly one unit, and every later check (the N+1-th) is refused.
C2_FirstNGranted ==
    (initial > 0 /\ now < Day) =>
        /\ Cardinality(GrantedRequests) =
              Min(Cardinality(GrantedRequests \cup RefusedRequests), initial)
        /\ Stored.remaining = initial - Cardinality(GrantedRequests)

\* the full allowance used up by as many requests, and one more refused
C2_Witness ==
    /\ initial = API_CASE_DAILY_ALLOWANCE
    /\ now < Day
    /\ Cardinality(GrantedRequests) = API_CASE_DAILY_ALLOWANCE
    /\ Cardinality(RefusedRequests) = 1
    /\ \A r \in slots : req[r].pc = "done"
    /\ row.data.remaining = 0

\* C3: case_allowance_remaining is always an integer from 0 to the daily
\* allowance, in the row, in temp_session and in every request.session.
C3_RemainingInRange ==
    /\ InRange(row.data)
    /\ InRange(temp)
    /\ \A r \in Reqs : InRange(req[r].session)

\* a check that finds the quota used up and leaves it at 0
C3_Witness ==
    \E r \in Reqs :
        /\ req[r].pc = "checked"
        /\ Refused(r)
        /\ temp.remaining = 0
        /\ row.data.remaining = 0

\* the step in which request r runs the guarded block, and the one in which
\* it saves and commits
CheckStep(r) == req[r].pc = "locked" /\ req'[r].pc = "checked"

SaveStep(r) == req[r].pc = "checked" /\ req'[r].pc = "render"

\* what a check has to do when it resets the quota and when it does not
AfterReset(r) ==
    /\ temp'.last_updated = now
    /\ temp'.remaining = API_CASE_DAILY_ALLOWANCE - 1
    /\ req'[r].serializer = "NoLogin"

AfterNoReset ==
    /\ temp'.last_updated = temp.last_updated
    /\ temp'.remaining <= temp.remaining

BranchTaken(q) ==
    IF q.response = "redirect_set_cookie" THEN "DeniedNeedsCookie"
    ELSE IF q.pc \in {"wait", "locked", "checked", "raised"} \/ q.modified
    THEN "QuotaCheck"
    ELSE IF q.serializer = "NoLogin" THEN "CrawlerAccess"
    ELSE IF q.serializer = "WithCasebody" THEN "FullAccess"
    ELSE "none"

\* the first matching tier of the four
FirstMatch(q) ==
    IF q.whitelisted \/ q.authenticated THEN "FullAccess"
    ELSE IF q.had_entry /\ q.cookie = "yes" THEN "QuotaCheck"
    ELSE IF q.crawler THEN "CrawlerAccess"
    ELSE "DeniedNeedsCookie"

\* the request found its case and went on to the tiers
Resolved(q) == q.view \in Views /\ q.tier # "none"

\* C5: whatever the case, the principal, the session, the cookie and the
\* crawler flag are, citation() takes the branch of the first matching tier:
\* whitelisted or authenticated, then quota entry with cookie, then crawler,
\* then the redirect.
C5_FirstMatchingTier ==
    \A r \in Reqs :
        Resolved(req[r]) => BranchTaken(req[r]) = FirstMatch(req[r])

\* a crawler with a ready quota session on a whitelisted case: three tiers
\* match and the first is taken
C5_Witness ==
    \E r \in Reqs :
        /\ Resolved(req[r])
        /\ req[r].whitelisted /\ ~req[r].authenticated
        /\ req[r].had_entry /\ req[r].cookie = "yes" /\ req[r].crawler
        /\ BranchTaken(req[r]) = "FullAccess"
        /\ req[r].pc = "done"

\* the request is one of the full-access or of the crawler tier
FullOrCrawler(q) ==
    /\ Resolved(q)
    /\ \/ q.whitelisted
       \/ q.authenticated
       \/ q.crawler /\ ~(q.had_entry /\ q.cookie = "yes")

\* C6: a request of the full-access or of the crawler tier never holds the
\* row lock and no step of it changes the row (remaining, last_updated).
C6_NoQuotaMutation ==
    /\ [](\A r \in Reqs :
             FullOrCrawler(req[r]) => lock # r /\ ~req[r].modified)
    /\ [][\A r \in Reqs :
             (req'[r] # req[r] /\ (FullOrCrawler(req[r]) \/ FullOrCrawler(req'[r])))
                => row' = row /\ lock' = lock]_vars

\* a full-access request answered while the session holds a partly used quota
C6_Witness ==
    \E r \in Reqs :
        /\ FullOrCrawler(req[r])
        /\ req[r].had_entry /\ req[r].cookie = "yes"
        /\ req[r].pc = "done"
        /\ row.status = "ok"
        /\ row.data.remaining = 1

\* C7 as claimed: a request whose session row is missing, expired or
\* undecodable when it is read under the lock goes on as with a fresh quota
\* entry and ends with a rendered result; no error leaves the request.
C7_UnreadableSessionRecovered ==
    \A r \in Reqs :
        /\ req[r].pc # "raised"
        /\ req[r].response # "error"

\* C8: a request gets the no-login serializer only from a check that granted
\* it and took one unit off the quota, or as a crawler without a ready quota
\* session; a refused check picks the credential-checking serializer and
\* leaves remaining at 0.
C8_NoLoginOnlyWhenGranted ==
    /\ [](\A r \in Reqs :
             req[r].serializer = "NoLogin" =>
                \/ req[r].tier = "QuotaCheck"
                \/ /\ req[r].tier = "CrawlerAccess"
                   /\ req[r].crawler
                   /\ ~(req[r].had_entry /\ req[r].cookie = "yes"))
    /\ [][\A r \in Reqs :
             /\ (CheckStep(r) /\ req'[r].serializer = "NoLogin") =>
                   \/ /\ temp.remaining > 0
                      /\ temp' = [temp EXCEPT !.remaining = @ - 1]
                   \/ /\ now - temp.last_updated > Day
                      /\ temp' = QuotaSession(API_CASE_DAILY_ALLOWANCE - 1, now)
             /\ (CheckStep(r) /\ req'[r].serializer # "NoLogin") =>
                   /\ req'[r].serializer = "WithCasebody"
                   /\ temp.remaining = 0
                   /\ temp'.remaining = 0
             /\ SaveStep(r) => row'.data = temp]_vars

\* a refused request answered with the body withheld, the quota still at 0
C8_Witness ==
    \E r \in Reqs :
        /\ Refused(r)
        /\ req[r].pc = "done"
        /\ req[r].status = "error_auth_required"
        /\ row.data.remaining = 0

\* the request is one for the redirect: its case is found and not
\* whitelisted, nobody is logged in, no crawler, and the quota entry or the
\* cookie is missing
NeedsCookie(q) ==
    /\ Resolved(q)
    /\ ~q.whitelisted /\ ~q.authenticated /\ ~q.crawler
    /\ ~(q.had_entry /\ q.cookie = "yes")

\* C9: such a request is answered by a redirect to set_cookie whose next
\* parameter reads back as the path that was requested, and no case is
\* serialized for it.
C9_RedirectKeepsPath ==
    \A r \in Reqs :
        NeedsCookie(req[r]) =>
            /\ req[r].response = "redirect_set_cookie"
            /\ req[r].location.path = <<"/", "set_cookie", "/">>
            /\ QueryDecode(req[r].location.next) = req[r].path
            /\ req[r].serializer = "none"
            /\ req[r].status = "none"

\* a pdf request without the cookie, redirected with the pdf's path as next
C9_Witness ==
    \E r \in Reqs :
        /\ NeedsCookie(req[r])
        /\ req[r].view = "pdf"
        /\ req[r].had_entry
        /\ req[r].pc = "done"
        /\ req[r].location.next = UrlEncode(FullPath("pdf"))

\* the request is a pdf request for a case with a redaction, and answered
RedactedPdfAnswered(q) ==
    /\ q.view = "pdf"
    /\ q.redacted
    /\ q.pc \in {"respond", "done"}

\* C10 as claimed: a pdf request for a case whose no_index_redacted is set
\* is answered NotFound, whatever the pdf feature flag and whoever asks.
C10_RedactedPdfNotFound ==
    \A r \in Reqs :
        RedactedPdfAnswered(req[r]) => req[r].response = "not_found"

\* C10 as amended: a pdf request for a case whose no_index_redacted is set
\* never gets the pdf, whatever the feature flag; at the canonical url it is
\* answered NotFound exactly when its casebody status is 'ok' or the index
\* does not hold the case, and otherwise by a redirect: to set_cookie, or
\* (body withheld) to the case page; elsewhere it is redirected to the
\* canonical pdf url.
C10_RedactedPdfNeverServed ==
    \A r \in Reqs :
        RedactedPdfAnswered(req[r]) =>
            /\ req[r].response \in {"not_found", "redirect_pdf_url",
                                    "redirect_set_cookie", "redirect_frontend"}
            /\ req[r].response = "not_found"
                  <=> \/ req[r].status = "ok"
                      \/ req[r].canonical /\ req[r].lookup = "index_missing"
            /\ req[r].response = "redirect_frontend"
                  <=> req[r].status \in {"error_auth_required", "error_limit_exceeded"}
            /\ req[r].response = "redirect_set_cookie" <=> NeedsCookie(req[r])
            /\ req[r].response = "redirect_pdf_url" <=> ~req[r].canonical

\* an anonymous reader with quota left asks for the pdf of a redacted case
\* and gets NotFound
C10_Witness ==
    \E r \in Reqs :
        /\ RedactedPdfAnswered(req[r])
        /\ Granted(r)
        /\ req[r].response = "not_found"

\* C11: a request is answered with the pdf only when the casebody status of
\* that request is 'ok', the volume has a pdf file, the case holds no
\* redaction and the pdf feature is on; a request whose body is withheld
\* (a refused check among them) never gets the pdf.
C11_PdfOnlyWhenOk ==
    \A r \in Reqs :
        /\ req[r].response = "pdf" =>
               /\ req[r].view = "pdf"
               /\ req[r].status = "ok"
               /\ req[r].pdf_file /\ ~req[r].redacted /\ req[r].feature
        /\ (req[r].pc \in {"respond", "done"} /\ req[r].status \notin {"ok", "none"})
               => req[r].response # "pdf"

\* a refused pdf request for a case whose pdf could be rendered, sent to the
\* case page instead
C11_Witness ==
    \E r \in Reqs :
        /\ req[r].view = "pdf"
        /\ Refused(r)
        /\ req[r].pdf_file /\ ~req[r].redacted /\ req[r].feature
        /\ req[r].status = "error_auth_required"
        /\ req[r].response = "redirect_frontend"
        /\ req[r].pc = "done"

\* the request is one for a case page whose series or volume slug is not in
\* slug form
SlugRequest(q) == q.view = "citation" /\ ~q.canonical

\* a path with every segment in slug form
Slugified(path) == [i \in 1 .. Len(path) |-> Slugify(path[i])]

\* the request took no tier, ran no serializer and wrote no session
NothingDone(q) ==
    /\ q.tier = "none"
    /\ q.serializer = "none"
    /\ q.status = "none"
    /\ ~q.modified
    /\ q.session = EmptySession

\* C12: a request for a case page whose series or volume slug differs from
\* its slugified form is answered by a redirect to the same path with the
\* slugs slugified, the case id kept when there is one; this whatever the
\* lookup would find, with no tier taken, no lock held, and no step of the
\* request changing the session row.
C12_SlugRedirectFirst ==
    /\ [](\A r \in Reqs :
             SlugRequest(req[r]) =>
                /\ req[r].response = "redirect_slug"
                /\ req[r].location.path = Slugified(req[r].path)
                /\ req[r].location.path # req[r].path
                /\ NothingDone(req[r])
                /\ lock # r)
    /\ [][\A r \in Reqs :
             (req'[r] # req[r] /\ (SlugRequest(req[r]) \/ SlugRequest(req'[r])))
                => row' = row /\ lock' = lock]_vars

\* a request with a case id that no case has and a series not in slug form,
\* redirected with the id kept, a partly used quota in the row
C12_Witness ==
    \E r \in Reqs :
        /\ SlugRequest(req[r])
        /\ req[r].lookup = "id_missing"
        /\ req[r].path = <<"/", "Ill", "/", "1", "/", "1", "/", "7", "/">>
        /\ req[r].location.path = <<"/", "ill", "/", "1", "/", "1", "/", "7", "/">>
        /\ req[r].pc = "done"
        /\ row.status = "ok"
        /\ row.data.remaining = 1

\* the request is a lookup by citation, at the slugified url, that finds no
\* case or more than one
FailedLookup(q) ==
    q.view = "citation" /\ q.canonical /\ q.lookup \in {"cite_0", "cite_2"}

\* C13: a lookup by citation that finds no case or more than one is answered
\* with the 'citation failed' page; it raises no error, takes no tier and no
\* step of it changes the session row; of the lookups by citation only the
\* one with exactly one match goes on to the tiers.
C13_CitationFailed ==
    /\ [](\A r \in Reqs :
             /\ FailedLookup(req[r]) =>
                   /\ req[r].response = "citation_failed"
                   /\ NothingDone(req[r])
                   /\ lock # r
             /\ (Resolved(req[r]) /\ ~HasCaseId(req[r].lookup))
                   => req[r].lookup = "cite_1")
    /\ [][\A r \in Reqs :
             (req'[r] # req[r] /\ (FailedLookup(req[r]) \/ FailedLookup(req'[r])))
                => row' = row /\ lock' = lock]_vars

\* a citation that two cases carry, answered with the 'citation failed' page,
\* a partly used quota in the row
C13_Witness ==
    \E r \in Reqs :
        /\ FailedLookup(req[r])
        /\ req[r].lookup = "cite_2"
        /\ req[r].response = "citation_failed"
        /\ req[r].pc = "done"
        /\ row.status = "ok"
        /\ row.data.remaining = 1

\* text with every word equal to the pattern replaced by the markup
RECURSIVE Replaced(_, _, _)
Replaced(text, pattern, markup) ==
    IF Len(text) = 0 THEN <<>>
    ELSE Replaced(SubSeq(text, 1, Len(text) - 1), pattern, markup)
            \o (IF text[Len(text)] = pattern THEN markup
                ELSE <<text[Len(text)]>>)

\* the steps in which the i-th rule (0-based) of a map is applied
RedactStep(i) ==
    doc.pc = "redact" /\ doc.redaction_count = i /\ doc'.redaction_count = i + 1

ElideStep(i) ==
    doc.pc = "elide" /\ doc.elision_count = i /\ doc'.elision_count = i + 1

\* the placeholder of an elision rule with the given id
Placeholder(rule, id) ==
    <<"<span class='elision-help-text' style='display: none'>", "hide",
      "</span>", "<span class='elided-text' data-elision-reason='", rule[2],
      "' role='button' tabindex='0' data-hidden-text='", rule[1],
      "' data-elision-id='", Str(id), "'>", "...", "</span>">>

\* the word occurs in the text
Occurs(word, text) == \E k \in 1 .. Len(text) : text[k] = word

\* C14 as claimed: the i-th elision rule (0-based) puts one and the same
\* placeholder, with data-elision-id = i, in the place of its matches in the
\* body and of its matches in the name with markup.
C14_SamePlaceholder ==
    [][\A i \in 0 .. MaxRules - 1 :
          ElideStep(i) =>
             LET rule == doc.no_index_elided[i + 1]
             IN  /\ doc'.data = Replaced(doc.data, rule[1], Placeholder(rule, i))
                 /\ doc'.case_name_with_markup =
                       Replaced(doc.case_name_with_markup, rule[1],
                                Placeholder(rule, i))]_vars

\* the marker of a redaction rule with the given id
Marker(rule, id) ==
    <<"<span class='redacted-text' data-redaction-id='", Str(id), "'>",
      rule[2], "</span>">>

\* C15: no elision rule is applied before every redaction rule is; the
\* rules of a map are applied in its order, each to the text the earlier
\* ones left; the i-th redaction rule (0-based) puts a marker with
\* data-redaction-id = i and its value in the place of its matches in the
\* body, and '[ value ]' in the place of its matches in the name and in
\* name_abbreviation; the i-th elision rule rewrites the body for its own
\* pattern.
C15_RedactionsThenElisions ==
    /\ [](/\ doc.elision_count > 0 =>
                doc.redaction_count = Len(doc.no_index_redacted)
          /\ doc.pc = "redact" => doc.elision_count = 0)
    /\ [][\A i \in 0 .. MaxRules - 1 :
             /\ RedactStep(i) =>
                   LET rule == doc.no_index_redacted[i + 1]
                   IN  /\ doc'.data = Replaced(doc.data, rule[1], Marker(rule, i))
                       /\ doc'.case_name_with_markup =
                             Replaced(doc.case_name_with_markup, rule[1],
                                      <<"[", rule[2], "]">>)
                       /\ doc'.name_abbreviation =
                             Replaced(doc.name_abbreviation, rule[1],
                                      <<"[", rule[2], "]">>)
                       /\ doc'.elision_count = 0
             /\ ElideStep(i) =>
                   LET rule == doc.no_index_elided[i + 1]
                   IN  /\ doc'.data = Replaced(doc.data, rule[1], Placeholder(rule, i))
                       /\ doc'.redaction_count = doc.redaction_count]_vars

\* two redactions and an elision applied in turn: the second redaction has
\* rewritten the value the first one put, and the elision found nothing left
C15_Witness ==
    /\ doc.pc = "done"
    /\ doc.no_index_redacted = <<<<"Jones", "Smith">>, <<"Smith", "REDACTED">>>>
    /\ doc.no_index_elided = <<<<"Smith", "REDACTED">>>>
    /\ doc.name = <<"[", "REDACTED", "]", "v.", "[", "[", "REDACTED", "]", "]">>
    /\ doc.name_with_html_markup = doc.name
    /\ Occurs("1", doc.data)

\* the next value safe_redirect() looks at: POST's, else GET's
GivenNext(q) == IF q.post_next # NoLocation THEN q.post_next ELSE q.get_next

\* the url is one of the host of the request
OnOwnHost(url) == url.host \in {"", RequestHost}

C17_LockReleased ==
    /\ \A r \in Reqs : (lock = r) ~> (lock # r)
    /\ \A r \in Reqs : (req[r].pc = "wait") ~> (req[r].pc = "done")
    /\ [](\A r \in Reqs :
             req[r].pc \notin {"locked", "checked", "raised"} => lock # r)

\* a request whose block raised has been answered with the error, and
\* another request holds the lock after it
C17_Witness ==
    \E r, q \in Reqs :
        /\ req[r].response = "error"
        /\ req[r].pc = "done"
        /\ lock = q
        /\ req[q].pc = "locked"

\* C18 as claimed: of the requests one anonymous session sends inside the
\* 24h window of its quota entry, with the not_a_bot cookie or without and
\* overlapping in any way, no more are granted than the entry had cases
\* remaining; and the stored remaining goes up only by the reset of a check
\* on an entry more than 24h old, never by the save of a request that was
\* redirected to set_cookie.
C18_GrantsWithinAllowance ==
    /\ [](now < Day => Cardinality(GrantedRequests) <= initial)
    /\ [][row'.data.remaining > row.data.remaining =>
             /\ now - row.data.last_updated > Day
             /\ \E r \in Reqs : SaveStep(r)]_vars

\* the request has its response
Answered(q) == q.pc \in {"respond", "done"}

\* C19 as claimed: a request whose check took a unit off the quota is
\* answered with the case, as html page or as pdf; a request answered with
\* NotFound or with a redirect has taken no unit.
C19_UnitBuysContent ==
    \A r \in Reqs :
        /\ (Answered(req[r]) /\ Granted(r)) => req[r].response \in {"html", "pdf"}
        /\ (Answered(req[r]) /\ req[r].response \notin {"html", "pdf"})
               => req[r].serializer # "NoLogin" \/ req[r].tier = "CrawlerAccess"

\* C20: a browser that starts without a session and without the cookie and
\* asks for a case that is not whitelisted comes to the page of the case in
\* the end; it has then followed two redirects, to set_cookie and back to
\* the url it asked for, the request that served it took the quota branch
\* and was granted, and the session holds allowance - 1; it never follows a
\* third redirect.
C20_ConsentFlowServes ==
    /\ <>(client.stage = "served")
    /\ [](client.redirects <= 2)
    /\ [](client.stage = "served" =>
             /\ client.redirects = 2
             /\ client.cookie = "yes"
             /\ req[1].path = client.path
             /\ req[1].tier = "QuotaCheck"
             /\ Granted(1)
             /\ req[1].status = "ok"
             /\ row.data.remaining = API_CASE_DAILY_ALLOWANCE - 1)

\* the browser at the page of the case it asked for by its id, more than a
\* day after its session got the quota entry
C20_Witness ==
    /\ client.stage = "served"
    /\ client.path = <<"/", "ill", "/", "1", "/", "1", "/", "7", "/">>
    /\ client.redirects = 2
    /\ row.data = QuotaSession(API_CASE_DAILY_ALLOWANCE - 1, now)
    /\ now > Day

====
